---- MODULE Spec2Model ----
(***************************************************************************)
(* A model of the dataset generator of country-data-gen:                   *)
(*   countries/dataset_generator.py  DatasetGenerator                      *)
(*   countries/asp/literal.py        Literal                               *)
(*   countries/asp/dlv_solver.py     DlvSolver.run                         *)
(*   countries/asp/answer_set.py     AnswerSet                             *)
(*   countries/vocabulary.py         predicate / class / relation names    *)
(*                                                                         *)
(* Python strings are modelled as sequences of one-character strings, so   *)
(* that the regular expressions of Literal and DlvSolver are computed on   *)
(* the characters.  Python's None is the value NoneVal.                    *)
(***************************************************************************)
EXTENDS Integers, Sequences, FiniteSets, TLC

\* ------------------------------------------------------------------ bounds

\* The number of country names the registry may hold.
MaxCountries == 3

\* DatasetGenerator.NUM_EVAL_COUNTRIES (dataset_generator.py:70), which is 20
\* in the source, scaled down so that the registries of the model can be split.
NUM_EVAL_COUNTRIES == 1

\* The largest num_datasets that generate_datasets is called with.
MaxDatasets == 2

\* The largest num_training_samples that generate_datasets is called with.
MaxTrainingSamples == 2

\* The largest number of terms of the literals that are constructed on their
\* own.
MaxArity == 2

\* --------------------------------------------------------------- constants

MAX_ATTEMPTS == 100

NoneVal == <<"None">>

\* ----------------------------------------------------------------- strings

Lower ==
    {"a","b","c","d","e","f","g","h","i","j","k","l","m",
     "n","o","p","q","r","s","t","u","v","w","x","y","z"}

Upper ==
    {"A","B","C","D","E","F","G","H","I","J","K","L","M",
     "N","O","P","Q","R","S","T","U","V","W","X","Y","Z"}

Digit == {"0","1","2","3","4","5","6","7","8","9"}

\* The characters of the model in the order of their code points.
Alphabet ==
    <<"(", ")", ",", "-",
      "0","1","2","3","4","5","6","7","8","9",
      "A","B","C","D","E","F","G","H","I","J","K","L","M",
      "N","O","P","Q","R","S","T","U","V","W","X","Y","Z",
      "_",
      "a","b","c","d","e","f","g","h","i","j","k","l","m",
      "n","o","p","q","r","s","t","u","v","w","x","y","z",
      "~">>

Ord(ch) == CHOOSE i \in 1..Len(Alphabet) : Alphabet[i] = ch

\* s < t for Python strings: the first differing character decides, a proper
\* prefix is smaller.
StrLess(s, t) ==
    \E k \in 1..(Len(t)) :
        /\ \A i \in 1..(k - 1) : i <= Len(s) /\ s[i] = t[i]
        /\ \/ k = Len(s) + 1
           \/ k <= Len(s) /\ Ord(s[k]) < Ord(t[k])

RECURSIVE Sorted(_)
\* sorted(S) for a set S of strings: the smallest first.
Sorted(S) ==
    IF S = {} THEN <<>>
    ELSE LET least == CHOOSE x \in S : \A y \in S \ {x} : StrLess(x, y)
         IN  <<least>> \o Sorted(S \ {least})

Range(q) == {q[i] : i \in 1..Len(q)}

\* q[lo:hi] of Python for 0 <= lo, hi (0-based, hi exclusive, clipped).
Slice(q, lo, hi) ==
    LET h == IF hi < Len(q) THEN hi ELSE Len(q)
    IN  IF lo >= h THEN <<>> ELSE SubSeq(q, lo + 1, h)

RECURSIVE Shuffles(_)
\* The outcomes of random.shuffle on a list holding the elements of S: every
\* order of them.
Shuffles(S) ==
    IF S = {} THEN {<<>>}
    ELSE UNION {{<<x>> \o q : q \in Shuffles(S \ {x})} : x \in S}

\* -------------------------------------------------------------- vocabulary

CLASS_COUNTRY == <<"c","o","u","n","t","r","y">>

CLASS_REGION == <<"r","e","g","i","o","n">>

CLASS_SUBREGION == <<"s","u","b","r","e","g","i","o","n">>

RELATION_LOCATED_IN == <<"l","o","c","a","t","e","d","_","i","n">>

RELATION_NEIGHBOR_OF == <<"n","e","i","g","h","b","o","r","_","o","f">>

NEIGHBOR_OF_PREDICATE == <<"n","e","i","g","h","b","o","r","O","f">>

PROBLEM_S1 == "S1"

PROBLEM_S2 == "S2"

PROBLEM_S3 == "S3"

\* ----------------------------------------------------------------- Literal

PREDICATE_PATTERN(s) ==
    /\ Len(s) >= 1
    /\ s[1] \in Lower
    /\ \A i \in 2..Len(s) : s[i] \in Lower \cup Upper \cup Digit

TERM_PATTERN(s) == PREDICATE_PATTERN(s)

\* Lines 76-80 alone: the terms are not looked at.
LiteralLegal_PredicateOnly(predicate, terms) ==
    Len(predicate) # 0 /\ PREDICATE_PATTERN(predicate)

\* Literal.__init__ raises ValueError (lines 76-89) unless this holds.
LiteralLegal(predicate, terms) ==
    /\ Len(predicate) # 0
    /\ PREDICATE_PATTERN(predicate)
    /\ \A i \in 1..Len(terms) : Len(terms[i]) # 0 /\ TERM_PATTERN(terms[i])

\* What the ValueError of Literal.__init__ is about, for arguments that are
\* not legal: the predicate (lines 77-80), or else the first term that is
\* empty or does not match (lines 84-89).
Rejected(predicate, terms) ==
    IF Len(predicate) = 0 \/ ~PREDICATE_PATTERN(predicate)
    THEN [arg |-> "predicate", value |-> predicate]
    ELSE LET i == CHOOSE k \in 1..Len(terms) :
                    /\ Len(terms[k]) = 0 \/ ~TERM_PATTERN(terms[k])
                    /\ \A j \in 1..(k - 1) : Len(terms[j]) # 0 /\ TERM_PATTERN(terms[j])
         IN  [arg |-> "terms", value |-> terms[i]]

\* The attributes of a constructed Literal (lines 93-95).
Literal(predicate, terms, positive) ==
    [positive |-> positive, predicate |-> predicate, terms |-> terms]

RECURSIVE Join(_)
\* ",".join(terms)
Join(terms) ==
    IF Len(terms) = 0 THEN <<>>
    ELSE IF Len(terms) = 1 THEN terms[1]
    ELSE terms[1] \o <<",">> \o Join(Tail(terms))

\* Literal.__str__ without the sign of a negative literal.
Str_NoSign(lit) ==
    lit.predicate \o <<"(">> \o Join(lit.terms) \o <<")">>

\* Literal.__str__ (lines 105-110).
Str(lit) ==
    (IF lit.positive THEN <<>> ELSE <<"~">>) \o lit.predicate \o <<"(">> \o Join(lit.terms) \o <<")">>

\* --------------------------------------------------------------- DlvSolver

RECURSIVE Split(_)
\* s.split(",")
Split(s) ==
    IF \A i \in 1..Len(s) : s[i] # ","
    THEN <<s>>
    ELSE LET i == CHOOSE k \in 1..Len(s) : s[k] = "," /\ \A j \in 1..(k - 1) : s[j] # ","
         IN  <<SubSeq(s, 1, i - 1)>> \o Split(SubSeq(s, i + 1, Len(s)))

\* The positions of x where the "\(" of LITERAL_PATTERN can match when the
\* predicate group starts at position from: a predicate and terms of at least
\* one character each, and ")" at the end.
OpenAt(x, from) ==
    {p \in (from + 1)..(Len(x) - 2) : x[p] = "(" /\ x[Len(x)] = ")"}

\* re.match(LITERAL_PATTERN, x) is not None (line 93).
Matches(x) == OpenAt(x, 1) # {}

\* The groups of re.match(LITERAL_PATTERN, x): the sign is taken if the rest
\* still matches, and the predicate group is greedy.
Match(x) ==
    LET signed == Len(x) >= 1 /\ x[1] \in {"-", "~"} /\ OpenAt(x, 2) # {}
        from == IF signed THEN 2 ELSE 1
        p == CHOOSE q \in OpenAt(x, from) : \A r \in OpenAt(x, from) : r <= q
    IN  [sign |-> IF signed THEN <<x[1]>> ELSE <<>>,
         predicate |-> SubSeq(x, from, p - 1),
         terms |-> SubSeq(x, p + 1, Len(x) - 1)]

\* The predicate of the located-in relation in the ontology program, which is
\* not part of the sources: countries.asp.
ONTOLOGY_LOCATED_IN == <<"l","o","c","a","t","e","d","I","n">>

\* What the ontology program derives from the facts: located-in is transitive.
Consequences(facts) ==
    {Literal(ONTOLOGY_LOCATED_IN, <<f.terms[1], g.terms[2]>>, TRUE) :
        <<f, g>> \in {<<f0, g0>> \in facts \X facts :
                        /\ f0.positive /\ g0.positive
                        /\ f0.predicate = ONTOLOGY_LOCATED_IN /\ Len(f0.terms) = 2
                        /\ g0.predicate = ONTOLOGY_LOCATED_IN /\ Len(g0.terms) = 2
                        /\ f0.terms[2] = g0.terms[1]}}

\* The literals that DLV prints between the braces of its answer, split at
\* ", " (lines 88, 92): the facts and what the program derives from them.  An
\* empty answer "{}" gives the one piece "".
DlvOutput(facts) ==
    LET answer == facts \cup Consequences(facts)
    IN  IF answer = {} THEN {<<>>} ELSE {Str(lit) : lit \in answer}

\* The exception that DlvSolver.run(path, facts) ends with, "" if it returns:
\* m is None for a piece that does not match (line 95), and Literal raises for
\* an illegal predicate or term (lines 94-98).  The ontology path is a file,
\* as the constructor of the generator has checked.
RunError(facts) ==
    IF \E x \in DlvOutput(facts) : ~Matches(x) THEN "AttributeError"
    ELSE IF \E x \in DlvOutput(facts) :
                ~LiteralLegal(Match(x).predicate, Split(Match(x).terms)) THEN "ValueError"
    ELSE ""

\* DlvSolver.run without the test of line 99: what DLV prints is kept as an
\* inference even if it is one of the facts.
Run_KeepEchoed(facts) ==
    LET parsed == {Literal(Match(x).predicate, Split(Match(x).terms), Match(x).sign = <<>>) :
                      x \in DlvOutput(facts)}
    IN  [facts |-> facts, inferences |-> parsed]

\* The AnswerSet that DlvSolver.run(path, facts) returns (lines 74, 91-102).
Run(facts) ==
    LET parsed == {Literal(Match(x).predicate, Split(Match(x).terms), Match(x).sign = <<>>) :
                      x \in DlvOutput(facts)}
    IN  [facts |-> facts, inferences |-> {lit \in parsed : lit \notin facts}]

\* AnswerSet.__iter__ (answer_set.py lines 74-75), as a set.
Iter(answer) == answer.facts \cup answer.inferences

\* ---------------------------------------------------------------- registry

\* The country names, regions and subregions of the model, as they are after
\* DatasetGenerator._fix_name.
NamePool == << <<"a">>, <<"b">>, <<"c">>, <<"d">>, <<"e">> >>

RegionOf == << <<"r">>, <<"r">>, <<"q">>, <<"r">>, <<"q">> >>

\* The subregions as the raw country data has them: the empty string for a
\* country that has none.
RawSubregionOf == << <<>>, <<"s">>, <<"t">>, <<"s">>, <<"t">> >>

\* __main__._load_data line 115: None if not c[SUBREGION_KEY] else
\* c[SUBREGION_KEY].
LoadSubregion(raw) == IF raw = <<>> THEN NoneVal ELSE raw

SubregionOf == [i \in 1..Len(RawSubregionOf) |-> LoadSubregion(RawSubregionOf[i])]

Names == {NamePool[i] : i \in 1..MaxCountries}

Country(i, neighbors) ==
    [name |-> NamePool[i], neighbors |-> neighbors,
     region |-> RegionOf[i], subregion |-> SubregionOf[i]]

Index(n) == CHOOSE i \in 1..Len(NamePool) : NamePool[i] = n

\* The unordered pairs of distinct elements of K.
Pairs(K) == {e \in SUBSET K : Cardinality(e) = 2}

\* The registries of the model: any subset K of the names, with any symmetric
\* adjacency without loops among them (a set E of borders).  Every neighbor
\* reference resolves to a country of the registry, as _load_data makes it.
Registries ==
    {[n \in K |-> Country(Index(n), {m \in K : {n, m} \in E})] :
        <<K, E>> \in UNION {{<<K0, E0>> : E0 \in SUBSET Pairs(K0)} : K0 \in SUBSET Names}}

\* ------------------------------------------------------------------- state

VARIABLES
    data,               \* DatasetGenerator._data: name -> Country
    problem_setting,    \* DatasetGenerator._problem_setting
    cfg_class_facts,    \* DatasetGenerator._class_facts
    regions,            \* DatasetGenerator._regions: region -> sorted list of its subregions
    pc,                 \* what the generator is doing or has last done
    err,                \* the exception that ended the last call, "" if none
    a,                  \* _split_countries: the attempts that were rejected so far
    all_countries,      \* _split_countries: the shuffled candidate pool of the last attempt
    train,              \* _split_countries: the returned lists
    dev,
    test,
    spec_countries,     \* _generate_sample: the argument, sorted
    inf_arg,            \* _generate_sample: the argument inf_countries, sorted; <<>> for None and for []
    minimal,            \* _generate_sample: the argument
    countries,          \* _generate_sample: the shuffled working list (line 256)
    inf_countries,      \* _generate_sample: the targets (lines 259-262)
    inf_neighbors,      \* _generate_sample: lines 265-268
    class_facts,        \* _generate_sample: the local sets of lines 279-282
    neighbor_facts,
    location_facts,
    all_locations,
    solver_calls,       \* the facts of each call of the solver's run, in order
    answer_set,         \* _generate_sample: line 346
    perfect_knowledge,  \* _generate_sample: line 364
    missing_knowledge,  \* _generate_sample: line 372, as a set
    sample,             \* _generate_sample: the knowledge graph that is returned
    ctor,               \* the arguments the constructor of the generator was called with
    gd_pc,              \* generate_datasets: where the call is
    num_datasets,       \* generate_datasets: the argument
    num_training_samples, \* generate_datasets: the argument
    dataset_idx,        \* generate_datasets: the loop variable of line 461
    sample_idx,         \* generate_datasets: the loop variable of line 493
    log,                \* what generate_datasets has done so far, in order
    lit1,               \* a Literal that was constructed, in a list: <<>> if none
    lit2,               \* another one
    lit_err,            \* the exception of the last operation on literals, "" if none
    rendered,           \* str(lit1), NoneVal if not taken
    reparsed,           \* the Literal parsed from rendered as DlvSolver.run does, in a list
    compared,           \* the outcome of comparing lit1 and lit2, in a list
    run_facts,          \* DlvSolver.run: the argument facts, a list
    run_answer,         \* DlvSolver.run: the AnswerSet that was returned, in a list
    add_args,           \* _add_literal_to_kg: the arguments lit, inferred, prediction, in a list
    lit_bad             \* what the ValueError of Literal(...) names, in a list, if the last operation ended so

confVars == <<data, problem_setting, cfg_class_facts, regions>>

splitVars == <<a, all_countries, train, dev, test>>

sampleVars ==
    <<spec_countries, inf_arg, minimal, countries, inf_countries, inf_neighbors,
      class_facts, neighbor_facts, location_facts, all_locations, solver_calls,
      answer_set, perfect_knowledge, missing_knowledge, sample>>

datasetVars == <<gd_pc, num_datasets, num_training_samples, dataset_idx, sample_idx, log>>

unitVars ==
    <<lit1, lit2, lit_err, rendered, reparsed, compared, run_facts, run_answer, add_args,
      lit_bad>>

vars == <<confVars, pc, err, splitVars, sampleVars, ctor, datasetVars, unitVars>>

\* Lines 131-143 of the constructor: the regions of the registry, each with
\* the sorted list of the subregions of its countries.
RegionIndex(d) ==
    LET rs == {d[n].region : n \in DOMAIN d}
    IN  [r \in rs |->
            Sorted({d[n].subregion : n \in {m \in DOMAIN d : d[m].region = r}} \ {NoneVal})]

\* DatasetGenerator._classes and ._relations: the names they are keyed by.
classes == {CLASS_COUNTRY, CLASS_REGION, CLASS_SUBREGION}

relations == {RELATION_LOCATED_IN, RELATION_NEIGHBOR_OF}

NoAnswer == [facts |-> {}, inferences |-> {}]

\* kg.KnowledgeGraph(): the individuals, their class memberships and the
\* triples of a sample.
NoSample == [individuals |-> {}, memberships |-> {}, triples |-> {}]

\* No call of _split_countries has left anything behind.
SplitReset ==
    /\ a' = 0
    /\ all_countries' = <<>>
    /\ train' = <<>>
    /\ dev' = <<>>
    /\ test' = <<>>

\* No call of _generate_sample has left anything behind.
SampleReset ==
    /\ spec_countries' = <<>>
    /\ inf_arg' = <<>>
    /\ minimal' = FALSE
    /\ countries' = <<>>
    /\ inf_countries' = {}
    /\ inf_neighbors' = {}
    /\ class_facts' = {}
    /\ neighbor_facts' = {}
    /\ location_facts' = {}
    /\ all_locations' = {}
    /\ solver_calls' = <<>>
    /\ answer_set' = NoAnswer
    /\ perfect_knowledge' = {}
    /\ missing_knowledge' = {}
    /\ sample' = NoSample

\* No method of the generator and no operation on literals has been called.
NothingCalled ==
    /\ err = ""
    /\ a = 0
    /\ all_countries = <<>>
    /\ train = <<>>
    /\ dev = <<>>
    /\ test = <<>>
    /\ spec_countries = <<>>
    /\ inf_arg = <<>>
    /\ minimal = FALSE
    /\ countries = <<>>
    /\ inf_countries = {}
    /\ inf_neighbors = {}
    /\ class_facts = {}
    /\ neighbor_facts = {}
    /\ location_facts = {}
    /\ all_locations = {}
    /\ solver_calls = <<>>
    /\ answer_set = NoAnswer
    /\ perfect_knowledge = {}
    /\ missing_knowledge = {}
    /\ sample = NoSample
    /\ gd_pc = "idle"
    /\ num_datasets = 0
    /\ num_training_samples = 0
    /\ dataset_idx = 0
    /\ sample_idx = 0
    /\ log = <<>>
    /\ lit1 = <<>>
    /\ lit2 = <<>>
    /\ lit_err = ""
    /\ rendered = NoneVal
    /\ reparsed = <<>>
    /\ compared = <<>>
    /\ run_facts = <<>>
    /\ run_answer = <<>>
    /\ add_args = <<>>
    /\ lit_bad = <<>>

\* The generator after its constructor (lines 103-157), for a registry whose
\* names are normalized.
Init ==
    /\ data \in Registries
    /\ problem_setting \in {PROBLEM_S1, PROBLEM_S2, PROBLEM_S3}
    /\ cfg_class_facts \in BOOLEAN
    /\ regions = RegionIndex(data)
    /\ pc = "idle"
    /\ ctor = [data |-> data, problem_setting |-> problem_setting,
               ontology_is_file |-> TRUE, class_facts |-> cfg_class_facts]
    /\ NothingCalled

\* No call is running: a new call may be made.
Idle == pc = "idle"

\* A call has returned or raised.
Ended == pc \in {"split_returned", "split_raised", "sample_returned", "sample_raised"}

\* ------------------------------------------------------- _split_countries

\* The countries that have neighbors (line 401).
CandidatePool == {n \in DOMAIN data : Cardinality(data[n].neighbors) > 0}

\* Line 427 left out: no country without neighbors is added to train.
Isolated_None == {}

\* The countries without neighbors (line 427).
Isolated == {n \in DOMAIN data : Cardinality(data[n].neighbors) = 0}

DevOf(shuffled) == Sorted(Range(Slice(shuffled, 0, NUM_EVAL_COUNTRIES)))

TestOf(shuffled) ==
    Sorted(Range(Slice(shuffled, NUM_EVAL_COUNTRIES, 2 * NUM_EVAL_COUNTRIES)))

\* The share of the candidate pool that goes to train (line 426), cut one
\* evaluation set too early.
TrainOf_CutEarly(shuffled) ==
    Sorted(Range(Slice(shuffled, NUM_EVAL_COUNTRIES, Len(shuffled))) \cup Isolated)

\* Lines 426-428: the rest of the shuffled pool and the countries without
\* neighbors, sorted.
TrainOf(shuffled) ==
    Sorted(Range(Slice(shuffled, 2 * NUM_EVAL_COUNTRIES, Len(shuffled))) \cup Isolated)

\* The check of lines 409-422 run over dev alone.
AttemptAccepted_DevOnly(dv, ts) ==
    LET used_countries == Range(dv) \cup Range(ts)
    IN  \A c \in Range(dv) : \E neighbor \in data[c].neighbors : neighbor \notin used_countries

\* The check of lines 409-422 without the test of line 415: any neighbor
\* will do, used or not.
AttemptAccepted_AnyNeighbor(dv, ts) ==
    LET used_countries == Range(dv) \cup Range(ts)
    IN  \A c \in used_countries : \E neighbor \in data[c].neighbors : TRUE

\* Lines 409-422: every country of dev and test has a neighbor that is not in
\* used_countries.
AttemptAccepted(dv, ts) ==
    LET used_countries == Range(dv) \cup Range(ts)
    IN  \A c \in used_countries : \E neighbor \in data[c].neighbors : neighbor \notin used_countries

\* range(MAX_ATTEMPTS) with one attempt too many.
AttemptsLeft_OneMore(n) == n <= MAX_ATTEMPTS

\* Line 398: range(MAX_ATTEMPTS) has another attempt after n rejected ones.
AttemptsLeft(n) == n < MAX_ATTEMPTS

\* A call of _split_countries: the loop starts with attempt 0.
SplitCall ==
    /\ Idle
    /\ pc' = "splitting"
    /\ UNCHANGED <<confVars, err, splitVars, sampleVars, ctor, unitVars, datasetVars>>

\* One iteration of the loop of lines 398-431: shuffle, cut, check, and
\* either return the split or go on with the next attempt.
SplitAttempt ==
    /\ pc = "splitting"
    /\ AttemptsLeft(a)
    /\ \E shuffled \in Shuffles(CandidatePool) :
        /\ all_countries' = shuffled
        /\ IF AttemptAccepted(DevOf(shuffled), TestOf(shuffled))
           THEN /\ train' = TrainOf(shuffled)
                /\ dev' = DevOf(shuffled)
                /\ test' = TestOf(shuffled)
                /\ pc' = "split_returned"
                /\ a' = a
           ELSE /\ a' = a + 1
                /\ UNCHANGED <<train, dev, test, pc>>
    /\ UNCHANGED <<confVars, err, sampleVars, ctor, unitVars, datasetVars>>

\* Line 434: the loop ran out of attempts.
SplitExhausted ==
    /\ pc = "splitting"
    /\ a >= MAX_ATTEMPTS
    /\ pc' = "split_raised"
    /\ err' = "ValueError"
    /\ UNCHANGED <<confVars, splitVars, sampleVars, ctor, unitVars, datasetVars>>

\* ------------------------------------------------------- _generate_sample

\* Lines 259-262 with countries[:NUM_EVAL_COUNTRIES] in line 262: the first
\* entries of the shuffled working list instead of the last.
TargetsOf_First(shuffled, inf) ==
    IF Len(inf) > 0
    THEN Range(inf)
    ELSE Range(Slice(shuffled, 0, NUM_EVAL_COUNTRIES))

\* Lines 259-262: the given targets, or the last NUM_EVAL_COUNTRIES entries of
\* the shuffled working list if none are given.
TargetsOf(shuffled, inf) ==
    IF Len(inf) > 0
    THEN Range(inf)
    ELSE Range(Slice(shuffled,
                     IF Len(shuffled) > NUM_EVAL_COUNTRIES
                     THEN Len(shuffled) - NUM_EVAL_COUNTRIES ELSE 0,
                     Len(shuffled)))

\* Lines 265-268.
InfNeighbors(targets) == UNION {data[c].neighbors : c \in targets} \ targets

\* Lines 285-287 and 299-301: the keys of the dict individuals.
Individuals(cs) ==
    DOMAIN regions \cup UNION {Range(regions[r]) : r \in DOMAIN regions} \cup cs

\* The pairs of a subregion and its region (lines 290-292).
SubregionPairs == {<<sub, r>> \in UNION {Range(regions[r0]) \X {r0} : r0 \in DOMAIN regions} : TRUE}

\* The pairs <<c, n>> for which line 338 lets the neighbor-of literals be made.
NeighborPairs(cs) == {<<c, n>> \in cs \X cs : n \in data[c].neighbors}

\* Every <<predicate, terms>> that lines 289-340 hand to Literal(...).
Constructed(cs) ==
    {<<CLASS_REGION, <<r>>>> : r \in DOMAIN regions}
    \cup {<<CLASS_SUBREGION, <<p[1]>>>> : p \in SubregionPairs}
    \cup {<<RELATION_LOCATED_IN, <<p[1], p[2]>>>> : p \in SubregionPairs}
    \cup {<<CLASS_COUNTRY, <<c>>>> : c \in cs}
    \cup {<<RELATION_LOCATED_IN, <<c, data[c].region>>>> : c \in cs}
    \cup {<<RELATION_LOCATED_IN, <<c, data[c].subregion>>>> :
             c \in {c0 \in cs : data[c0].subregion # NoneVal}}
    \cup {<<NEIGHBOR_OF_PREDICATE, <<p[1], p[2]>>>> : p \in NeighborPairs(cs)}
    \cup {<<NEIGHBOR_OF_PREDICATE, <<p[2], p[1]>>>> : p \in NeighborPairs(cs)}

\* One of the Literal(...) of lines 289-340 raises ValueError.
ConstructionRaises(cs) == \E t \in Constructed(cs) : ~LiteralLegal(t[1], t[2])

\* class_facts at line 342.
ClassFacts(cs) ==
    {Literal(CLASS_REGION, <<r>>, TRUE) : r \in DOMAIN regions}
    \cup {Literal(CLASS_SUBREGION, <<p[1]>>, TRUE) : p \in SubregionPairs}
    \cup {Literal(CLASS_COUNTRY, <<c>>, TRUE) : c \in cs}

\* neighbor_facts at line 342.
NeighborFacts(cs) ==
    {Literal(NEIGHBOR_OF_PREDICATE, <<p[1], p[2]>>, TRUE) : p \in NeighborPairs(cs)}
    \cup {Literal(NEIGHBOR_OF_PREDICATE, <<p[2], p[1]>>, TRUE) : p \in NeighborPairs(cs)}

reg_lit(c) == Literal(RELATION_LOCATED_IN, <<c, data[c].region>>, TRUE)

sub_lit(c) == Literal(RELATION_LOCATED_IN, <<c, data[c].subregion>>, TRUE)

\* all_locations at line 342.
AllLocations(cs) ==
    {Literal(RELATION_LOCATED_IN, <<p[1], p[2]>>, TRUE) : p \in SubregionPairs}
    \cup {reg_lit(c) : c \in cs}
    \cup {sub_lit(c) : c \in {c0 \in cs : data[c0].subregion # NoneVal}}

\* Lines 320-334: the region of a country goes to location_facts.
RegionGiven(c, targets, nbrs) ==
    IF problem_setting = PROBLEM_S1 THEN c \notin targets
    ELSE IF problem_setting = PROBLEM_S2 THEN c \notin targets
    ELSE c \notin targets /\ c \notin nbrs

\* Lines 320-334: the subregion of a country goes to location_facts.
SubregionGiven(c, targets, nbrs) ==
    IF problem_setting = PROBLEM_S1 THEN data[c].subregion # NoneVal
    ELSE IF problem_setting = PROBLEM_S2 THEN c \notin targets /\ data[c].subregion # NoneVal
    ELSE c \notin targets /\ data[c].subregion # NoneVal

\* location_facts at line 342.
LocationFacts(cs, targets, nbrs) ==
    {Literal(RELATION_LOCATED_IN, <<p[1], p[2]>>, TRUE) : p \in SubregionPairs}
    \cup {reg_lit(c) : c \in {c0 \in cs : RegionGiven(c0, targets, nbrs)}}
    \cup {sub_lit(c) : c \in {c0 \in cs : SubregionGiven(c0, targets, nbrs)}}

\* Lines 343-345: the facts of the first call of the solver.
InputFacts(cs, targets, nbrs) ==
    NeighborFacts(cs) \cup LocationFacts(cs, targets, nbrs)
    \cup (IF cfg_class_facts THEN ClassFacts(cs) ELSE {})

\* Line 367: the facts of the second call of the solver.
PerfectFacts(cs) == ClassFacts(cs) \cup NeighborFacts(cs) \cup AllLocations(cs)

\* _add_literal_to_kg (lines 179-198) raises KeyError: a term is no key of
\* individuals, or the predicate no key of _classes or of _relations.
AddRaises(lit, inds) ==
    IF Len(lit.terms) = 1
    THEN lit.terms[1] \notin inds \/ lit.predicate \notin classes
    ELSE \/ lit.terms[1] \notin inds
         \/ lit.predicate \notin relations
         \/ lit.terms[2] \notin inds

\* _add_literal_to_kg (lines 179-198): the sample with the literal added.
add_literal_to_kg(smp, lit, inferred, prediction) ==
    IF Len(lit.terms) = 1
    THEN [smp EXCEPT !.memberships = @ \cup
            {[individual |-> lit.terms[1], cls |-> lit.predicate, is_member |-> lit.positive,
              inferred |-> inferred, prediction |-> prediction]}]
    ELSE [smp EXCEPT !.triples = @ \cup
            {[subject |-> lit.terms[1], relation |-> lit.predicate, object |-> lit.terms[2],
              positive |-> lit.positive, inferred |-> inferred, prediction |-> prediction]}]

RECURSIVE AddAll(_, _, _, _)
\* The loops of lines 349-350, 353-361 and 375-383 over a set of literals
\* that all can be added.
AddAll(smp, lits, inferred, prediction) ==
    IF lits = {} THEN smp
    ELSE LET lit == CHOOSE l \in lits : TRUE
         IN  AddAll(add_literal_to_kg(smp, lit, inferred, prediction), lits \ {lit},
                    inferred, prediction)

\* Lines 354-360 and 376-382: the literal is kept in the sample.
Retained(lit, min, targets) ==
    \/ ~min
    \/ lit.predicate = <<"r","e","g","i","o","n">>
    \/ lit.predicate = <<"s","u","b","r","e","g","i","o","n">>
    \/ Len(lit.terms) = 1 /\ lit.terms[1] \in targets
    \/ Len(lit.terms) = 2 /\ (lit.terms[1] \in targets \/ lit.terms[2] \in targets)

\* Line 372 without the subtraction: all of the perfect knowledge counts as
\* missing.
MissingKnowledge_All(perfect, answer) == perfect

\* Line 372.
MissingKnowledge(perfect, answer) == perfect \ Iter(answer)

\* The body of _generate_sample from line 270 on, for the shuffled working
\* list and the targets: where it ends, and what it has computed until then.
Build(shuffled, targets, min) ==
    LET cs == Range(shuffled)
        nbrs == InfNeighbors(targets)
        inds == Individuals(cs)
        input == InputFacts(cs, targets, nbrs)
        answer == Run(input)
        inferred == {i \in answer.inferences : Retained(i, min, targets)}
        perfect == Iter(Run(PerfectFacts(cs)))
        missing == MissingKnowledge(perfect, answer)
        predicted == {m \in missing : Retained(m, min, targets)}
        s0 == [NoSample EXCEPT !.individuals = inds]
        s1 == AddAll(s0, answer.facts, FALSE, FALSE)
        s2 == AddAll(s1, inferred, TRUE, FALSE)
        s3 == AddAll(s2, predicted, FALSE, TRUE)
        sets == [class_facts |-> ClassFacts(cs), neighbor_facts |-> NeighborFacts(cs),
                 location_facts |-> LocationFacts(cs, targets, nbrs),
                 all_locations |-> AllLocations(cs)]
        none == [class_facts |-> {}, neighbor_facts |-> {}, location_facts |-> {},
                 all_locations |-> {}]
    IN  IF ConstructionRaises(cs)
        THEN [err |-> "ValueError", sets |-> none, calls |-> <<>>, answer |-> NoAnswer,
              perfect |-> {}, missing |-> {}, sample |-> NoSample]
        ELSE IF RunError(input) # ""
        THEN [err |-> RunError(input), sets |-> sets, calls |-> <<input>>, answer |-> NoAnswer,
              perfect |-> {}, missing |-> {}, sample |-> NoSample]
        ELSE IF \E f \in answer.facts \cup inferred : AddRaises(f, inds)
        THEN [err |-> "KeyError", sets |-> sets, calls |-> <<input>>, answer |-> answer,
              perfect |-> {}, missing |-> {}, sample |-> NoSample]
        ELSE IF RunError(PerfectFacts(cs)) # ""
        THEN [err |-> RunError(PerfectFacts(cs)), sets |-> sets,
              calls |-> <<input, PerfectFacts(cs)>>, answer |-> answer,
              perfect |-> {}, missing |-> {}, sample |-> NoSample]
        ELSE IF \E m \in predicted : AddRaises(m, inds)
        THEN [err |-> "KeyError", sets |-> sets, calls |-> <<input, PerfectFacts(cs)>>,
              answer |-> answer, perfect |-> perfect, missing |-> missing, sample |-> NoSample]
        ELSE [err |-> "", sets |-> sets, calls |-> <<input, PerfectFacts(cs)>>,
              answer |-> answer, perfect |-> perfect, missing |-> missing, sample |-> s3]

\* A call _generate_sample(spec_countries, inf_countries, minimal) with
\* countries of the registry, no country given twice.
GenerateSample ==
    /\ Idle
    /\ \E spec \in SUBSET DOMAIN data, min \in BOOLEAN :
       \E inf \in SUBSET (DOMAIN data \ spec) :
       \E shuffled \in Shuffles(spec \cup inf) :
       \E targets \in {TargetsOf(shuffled, Sorted(inf))} :
       \E b \in {Build(shuffled, targets, min)} :
              /\ spec_countries' = Sorted(spec)
              /\ inf_arg' = Sorted(inf)
              /\ minimal' = min
              /\ countries' = shuffled
              /\ inf_countries' = targets
              /\ inf_neighbors' = InfNeighbors(targets)
              /\ class_facts' = b.sets.class_facts
              /\ neighbor_facts' = b.sets.neighbor_facts
              /\ location_facts' = b.sets.location_facts
              /\ all_locations' = b.sets.all_locations
              /\ solver_calls' = b.calls
              /\ answer_set' = b.answer
              /\ perfect_knowledge' = b.perfect
              /\ missing_knowledge' = b.missing
              /\ sample' = b.sample
              /\ err' = b.err
              /\ pc' = IF b.err = "" THEN "sample_returned" ELSE "sample_raised"
    /\ UNCHANGED <<confVars, splitVars, ctor, unitVars, datasetVars>>

\* The caller has taken the outcome of the call; the generator, which keeps
\* nothing of a call but its registry and options, is ready for the next.
Finish ==
    /\ Ended
    /\ gd_pc = "idle"
    /\ pc' = "idle"
    /\ err' = ""
    /\ SplitReset
    /\ SampleReset
    /\ UNCHANGED <<confVars, ctor, unitVars, datasetVars>>

\* ------------------------------------------------------ generate_datasets

\* No call of generate_datasets has left anything behind.
DatasetsReset ==
    /\ gd_pc' = "idle"
    /\ num_datasets' = 0
    /\ num_training_samples' = 0
    /\ dataset_idx' = 0
    /\ sample_idx' = 0
    /\ log' = <<>>

\* The check of lines 450-454 without that of num_training_samples.
CountsIllegal_DatasetsOnly(nd, nt) == nd < 1

\* Lines 450-454: the arguments are out of range.
CountsIllegal(nd, nt) == nd < 1 \/ nt < 1

\* A call generate_datasets(num_datasets, num_training_samples, output_dir):
\* the arguments are checked (lines 450-454) before the loop is entered.
DatasetsCall ==
    /\ Idle
    /\ gd_pc = "idle"
    /\ \E nd \in 0..MaxDatasets, nt \in 0..MaxTrainingSamples :
        /\ num_datasets' = nd
        /\ num_training_samples' = nt
        /\ IF CountsIllegal(nd, nt)
           THEN gd_pc' = "raised" /\ err' = "ValueError"
           ELSE gd_pc' = "dataset" /\ err' = err
    /\ pc' = "datasets"
    /\ dataset_idx' = 0
    /\ sample_idx' = 0
    /\ log' = <<>>
    /\ UNCHANGED <<confVars, splitVars, sampleVars, ctor, unitVars>>

\* Lines 461-482: an iteration of the loop over the datasets starts: the
\* directories of the dataset are made and _split_countries is called.
DatasetsBegin ==
    /\ gd_pc = "dataset"
    /\ dataset_idx < num_datasets
    /\ log' = Append(log, [op |-> "mkdir", ds |-> dataset_idx])
    /\ gd_pc' = "split"
    /\ pc' = "splitting"
    /\ SplitReset
    /\ UNCHANGED <<confVars, err, sampleVars, ctor, unitVars, num_datasets, num_training_samples,
                   dataset_idx, sample_idx>>

\* Lines 482-490: _split_countries has returned; the countries of dev and
\* of test are written to the directory of the dataset.
DatasetsSplitDone ==
    /\ gd_pc = "split"
    /\ pc = "split_returned"
    /\ log' = Append(log, [op |-> "split", ds |-> dataset_idx,
                           train |-> train, dev |-> dev, test |-> test])
    /\ gd_pc' = "training"
    /\ sample_idx' = 0
    /\ pc' = "datasets"
    /\ UNCHANGED <<confVars, err, splitVars, sampleVars, ctor, unitVars, num_datasets,
                   num_training_samples, dataset_idx>>

\* Line 482 in a loop that tries again: after _split_countries has raised it
\* is called once more.
DatasetsSplitFailed_Retry ==
    /\ gd_pc = "split"
    /\ pc = "split_raised"
    /\ pc' = "splitting"
    /\ SplitReset
    /\ UNCHANGED <<confVars, err, sampleVars, ctor, unitVars, datasetVars>>

\* Line 482: _split_countries has raised, and so does generate_datasets.
DatasetsSplitFailed ==
    /\ gd_pc = "split"
    /\ pc = "split_raised"
    /\ gd_pc' = "raised"
    /\ pc' = "datasets"
    /\ UNCHANGED <<confVars, err, splitVars, sampleVars, ctor, unitVars, num_datasets,
                   num_training_samples, dataset_idx, sample_idx, log>>

\* The argument inf_countries of the next call of _generate_sample (lines
\* 495, 500, 505): <<>> if it is omitted.
NextTargets == IF gd_pc = "dev" THEN dev ELSE IF gd_pc = "test" THEN test ELSE <<>>

\* Where generate_datasets is after a sample was built and written.
AfterWrite ==
    IF gd_pc = "training"
    THEN IF sample_idx + 1 < num_training_samples THEN "training" ELSE "dev"
    ELSE IF gd_pc = "dev" THEN "test"
    ELSE IF dataset_idx + 1 < num_datasets THEN "dataset" ELSE "returned"

\* Lines 493-513: the next sample is built by _generate_sample and written
\* by KgWriter.write: a training sample (lines 495-496), the dev sample (lines
\* 500-501) or the test sample (lines 505-506), after which the iteration
\* ends.  An exception of _generate_sample ends generate_datasets.
DatasetsBuild ==
    /\ gd_pc \in {"training", "dev", "test"}
    /\ \E shuffled \in Shuffles(Range(train) \cup Range(NextTargets)) :
       \E targets \in {TargetsOf(shuffled, NextTargets)} :
       \E b \in {Build(shuffled, targets, gd_pc # "training")} :
           /\ spec_countries' = train
           /\ inf_arg' = NextTargets
           /\ minimal' = (gd_pc # "training")
           /\ countries' = shuffled
           /\ inf_countries' = targets
           /\ inf_neighbors' = InfNeighbors(targets)
           /\ class_facts' = b.sets.class_facts
           /\ neighbor_facts' = b.sets.neighbor_facts
           /\ location_facts' = b.sets.location_facts
           /\ all_locations' = b.sets.all_locations
           /\ solver_calls' = b.calls
           /\ answer_set' = b.answer
           /\ perfect_knowledge' = b.perfect
           /\ missing_knowledge' = b.missing
           /\ sample' = b.sample
           /\ err' = b.err
           /\ log' = log
                \o <<[op |-> "build", ds |-> dataset_idx, kind |-> gd_pc, idx |-> sample_idx,
                      spec |-> train, inf |-> NextTargets, minimal |-> (gd_pc # "training"),
                      calls |-> Len(b.calls)]>>
                \o (IF b.err = ""
                    THEN <<[op |-> "write", ds |-> dataset_idx, kind |-> gd_pc,
                            idx |-> sample_idx]>>
                    ELSE <<>>)
           /\ gd_pc' = IF b.err = "" THEN AfterWrite ELSE "raised"
           /\ sample_idx' = IF b.err = "" /\ gd_pc = "training" THEN sample_idx + 1
                            ELSE sample_idx
           /\ dataset_idx' = IF b.err = "" /\ gd_pc = "test" THEN dataset_idx + 1
                             ELSE dataset_idx
    /\ UNCHANGED <<confVars, pc, splitVars, ctor, unitVars, num_datasets, num_training_samples>>

\* generate_datasets has returned or raised; the caller has taken the
\* outcome.
DatasetsFinish ==
    /\ gd_pc \in {"returned", "raised"}
    /\ pc' = "idle"
    /\ err' = ""
    /\ SplitReset
    /\ SampleReset
    /\ DatasetsReset
    /\ UNCHANGED <<confVars, ctor, unitVars>>

Next ==
    \/ SplitCall
    \/ SplitAttempt
    \/ SplitExhausted
    \/ GenerateSample
    \/ Finish
    \/ DatasetsCall
    \/ DatasetsBegin
    \/ DatasetsSplitDone
    \/ DatasetsSplitFailed
    \/ DatasetsBuild
    \/ DatasetsFinish

Spec == Init /\ [][Next]_vars

\* The generator used for splitting alone.
NextSplit ==
    \/ SplitCall
    \/ SplitAttempt
    \/ SplitExhausted
    \/ Finish

SplitSpec == Init /\ [][NextSplit]_vars

\* The most countries of a registry that is split for its own sake: one more
\* than a split with a train country of the pool needs, so that a country
\* without neighbors can join it.
MaxSplitCountries == 4

\* The registries over the first MaxSplitCountries names.
WideRegistries ==
    {[n \in K |-> Country(Index(n), {m \in K : {n, m} \in E})] :
        <<K, E>> \in UNION {{<<K0, E0>> : E0 \in SUBSET Pairs(K0)} :
                              K0 \in SUBSET {NamePool[i] : i \in 1..MaxSplitCountries}}}

\* The generator after its constructor, for one of the wider registries.
InitWide ==
    /\ data \in WideRegistries
    /\ problem_setting = PROBLEM_S1
    /\ cfg_class_facts = FALSE
    /\ regions = RegionIndex(data)
    /\ pc = "idle"
    /\ ctor = [data |-> data, problem_setting |-> problem_setting,
               ontology_is_file |-> TRUE, class_facts |-> cfg_class_facts]
    /\ NothingCalled

WideSplitSpec == InitWide /\ [][NextSplit]_vars

\* The generator used through generate_datasets alone.
NextDatasets ==
    \/ DatasetsCall
    \/ DatasetsBegin
    \/ SplitAttempt
    \/ SplitExhausted
    \/ DatasetsSplitDone
    \/ DatasetsSplitFailed
    \/ DatasetsBuild
    \/ DatasetsFinish

DatasetsSpec == Init /\ [][NextDatasets]_vars

\* ------------------------------------------------------- the constructor

\* name.lower() of _fix_name (line 219).
LowerOf(s) ==
    [i \in 1..Len(s) |-> IF s[i] \in Upper THEN Alphabet[Ord(s[i]) + 27] ELSE s[i]]

\* w[0].upper() + w[1:] of _fix_name (line 223), for a word that is not empty.
Capitalized(w) ==
    [i \in 1..Len(w) |-> IF i = 1 /\ w[i] \in Lower THEN Alphabet[Ord(w[i]) - 27] ELSE w[i]]

RECURSIVE Removed(_)
\* re.sub of line 216: commas and parentheses are removed.
Removed(s) ==
    IF s = <<>> THEN <<>>
    ELSE IF Head(s) \in {",", "(", ")"} THEN Removed(Tail(s))
    ELSE <<Head(s)>> \o Removed(Tail(s))

RECURSIVE Words(_)
\* re.split of line 219, for the separator "-".
Words(s) ==
    IF \A i \in 1..Len(s) : s[i] # "-"
    THEN <<s>>
    ELSE LET i == CHOOSE k \in 1..Len(s) : s[k] = "-" /\ \A j \in 1..(k - 1) : s[j] # "-"
         IN  <<SubSeq(s, 1, i - 1)>> \o Words(SubSeq(s, i + 1, Len(s)))

RECURSIVE Camel(_, _)
\* The loop of lines 220-225 over the words that are left, valid_name being
\* what it has built so far.
Camel(words, valid_name) ==
    IF words = <<>> THEN valid_name
    ELSE IF valid_name # <<>>
         THEN Camel(Tail(words), valid_name \o Capitalized(Head(words)))
         ELSE Camel(Tail(words), Head(words))

\* DatasetGenerator._fix_name (lines 200-227), for names in which no empty
\* word follows a word: line 223 raises IndexError for the others, and the raw
\* names here have none.
fix_name(name) == Camel(Words(LowerOf(Removed(name))), <<>>)

\* The names of countries, regions and subregions as the raw data spells
\* them, by the index of the country.
RawNamePool == << <<"A">>, <<"b">>, <<"(","c",")">>, <<"D">>, <<"e">> >>

RawRegionOf == << <<"R">>, <<"R">>, <<"q","-","r">>, <<"R">>, <<"q","-","r">> >>

\* The registry d as it is before the constructor has normalized its names.
RawRegistry(d) ==
    [k \in {RawNamePool[Index(n)] : n \in DOMAIN d} |->
        LET i == CHOOSE j \in 1..Len(RawNamePool) : RawNamePool[j] = k
        IN  [name |-> k,
             neighbors |-> {RawNamePool[Index(m)] : m \in d[NamePool[i]].neighbors},
             region |-> RawRegionOf[i],
             subregion |-> SubregionOf[i]]]

\* Lines 124-129: the keys and the fields of the countries after _fix_name.
FixedData(raw) ==
    [k \in {fix_name(r) : r \in DOMAIN raw} |->
        LET c == raw[CHOOSE r \in DOMAIN raw : fix_name(r) = k]
        IN  [name |-> fix_name(c.name),
             neighbors |-> {fix_name(n) : n \in c.neighbors},
             region |-> fix_name(c.region),
             subregion |-> IF c.subregion = NoneVal THEN NoneVal ELSE fix_name(c.subregion)]]

\* Lines 103-111: the constructor rejects its arguments.
CtorIllegal(args) ==
    \/ args.problem_setting \notin {PROBLEM_S1, PROBLEM_S2, PROBLEM_S3}
    \/ ~args.ontology_is_file

\* A generator is about to be constructed: the arguments are there, the
\* generator is not.
InitConfig ==
    /\ ctor \in [data : {RawRegistry(d) : d \in Registries},
                 problem_setting : {PROBLEM_S1, PROBLEM_S2, PROBLEM_S3, "S4"},
                 ontology_is_file : BOOLEAN,
                 class_facts : BOOLEAN]
    /\ data = <<>>
    /\ problem_setting = ""
    /\ cfg_class_facts = FALSE
    /\ regions = <<>>
    /\ pc = "new"
    /\ NothingCalled

\* DatasetGenerator(data, problem_setting, solver, ontology_path, class_facts)
\* (lines 84-157): the arguments are checked, then the attributes are set,
\* the names are fixed and the regions are collected.
Construct ==
    /\ pc = "new"
    /\ IF CtorIllegal(ctor)
       THEN /\ pc' = "ctor_raised"
            /\ err' = "ValueError"
            /\ UNCHANGED confVars
       ELSE /\ data' = FixedData(ctor.data)
            /\ problem_setting' = ctor.problem_setting
            /\ cfg_class_facts' = ctor.class_facts
            /\ regions' = RegionIndex(FixedData(ctor.data))
            /\ pc' = "idle"
            /\ err' = ""
    /\ UNCHANGED <<splitVars, sampleVars, ctor, datasetVars, unitVars>>

\* A generator is constructed and then used through generate_datasets.
NextConfig ==
    \/ Construct
    \/ NextDatasets

ConfigSpec == InitConfig /\ [][NextConfig]_vars

\* ------------------------------------------------- operations on literals

\* The predicate symbols that literals are constructed from: legal ones, the
\* empty string, one with an underscore and one that starts upper-case.
PredicatePool == {<<"p">>, <<"q","R">>, <<>>, <<"p","_","q">>, <<"P">>}

\* The terms that literals are constructed from: legal ones, the empty string
\* and one with a comma.
TermPool == {<<"a">>, <<"b">>, <<>>, <<"a",",","b">>}

\* The values of the argument terms: None, or up to MaxArity terms.
TermLists ==
    {NoneVal} \cup UNION {[1..n -> TermPool] : n \in 0..MaxArity}

\* Literal.__eq__ (lines 99-100) for literals that have terms.
Eq_Unsigned(l, m) == l.predicate = m.predicate /\ Join(l.terms) = Join(m.terms)

\* Literal.__eq__ (lines 99-100): the strings are equal.
Eq(l, m) == Str(m) = Str(l)

\* Literal.__hash__ (lines 102-103): the hash of the string, which is modelled
\* by the string.
Hash(l) == Str(l)

\* set(q) for a list q of literals: what is equal, with equal hashes, is held
\* once.
SetOf(q) ==
    {CHOOSE m \in Range(q) : Eq(m, l) /\ Hash(m) = Hash(l) : l \in Range(q)}

\* No operation on literals has left anything behind.
InitLiteral ==
    /\ Init
    /\ DOMAIN data = {}
    /\ problem_setting = PROBLEM_S1
    /\ ~cfg_class_facts

\* Literal(predicate, terms, positive) is called (lines 55-95): it raises
\* ValueError, or the literal is there.
NewLiteral ==
    /\ \E k \in {1, 2}, predicate \in PredicatePool, terms \in TermLists, positive \in BOOLEAN :
        /\ IF LiteralLegal(predicate, IF terms = NoneVal THEN <<>> ELSE terms)
           THEN /\ lit1' = IF k = 1 THEN <<Literal(predicate, terms, positive)>> ELSE lit1
                /\ lit2' = IF k = 2 THEN <<Literal(predicate, terms, positive)>> ELSE lit2
                /\ lit_err' = ""
           ELSE /\ lit_err' = "ValueError"
                /\ UNCHANGED <<lit1, lit2>>
        /\ lit_bad' = IF LiteralLegal(predicate, IF terms = NoneVal THEN <<>> ELSE terms)
                      THEN <<>>
                      ELSE <<Rejected(predicate, IF terms = NoneVal THEN <<>> ELSE terms)>>
    /\ rendered' = NoneVal
    /\ reparsed' = <<>>
    /\ compared' = <<>>
    /\ UNCHANGED <<confVars, pc, err, splitVars, sampleVars, ctor, datasetVars,
                   run_facts, run_answer, add_args>>

\* str(lit1) is taken (lines 105-110); ",".join(None) raises TypeError.
Render ==
    /\ lit1 # <<>>
    /\ rendered = NoneVal
    /\ IF lit1[1].terms = NoneVal
       THEN lit_err' = "TypeError" /\ rendered' = rendered
       ELSE lit_err' = "" /\ rendered' = Str(lit1[1])
    /\ lit_bad' = <<>>
    /\ UNCHANGED <<confVars, pc, err, splitVars, sampleVars, ctor, datasetVars,
                   lit1, lit2, reparsed, compared, run_facts, run_answer, add_args>>

\* The string is parsed as DlvSolver.run parses a piece of the answer (lines
\* 93-98).
Reparse ==
    /\ rendered # NoneVal
    /\ reparsed = <<>>
    /\ IF ~Matches(rendered)
       THEN lit_err' = "AttributeError" /\ reparsed' = reparsed /\ lit_bad' = <<>>
       ELSE IF ~LiteralLegal(Match(rendered).predicate, Split(Match(rendered).terms))
       THEN /\ lit_err' = "ValueError"
            /\ reparsed' = reparsed
            /\ lit_bad' = <<Rejected(Match(rendered).predicate, Split(Match(rendered).terms))>>
       ELSE /\ lit_err' = ""
            /\ lit_bad' = <<>>
            /\ reparsed' = <<Literal(Match(rendered).predicate, Split(Match(rendered).terms),
                                     Match(rendered).sign = <<>>)>>
    /\ UNCHANGED <<confVars, pc, err, splitVars, sampleVars, ctor, datasetVars,
                   lit1, lit2, rendered, compared, run_facts, run_answer, add_args>>

\* lit1 == lit2, hash(lit1) == hash(lit2) and len({lit1, lit2}) are taken.
Compare ==
    /\ lit1 # <<>>
    /\ lit2 # <<>>
    /\ compared = <<>>
    /\ IF lit1[1].terms = NoneVal \/ lit2[1].terms = NoneVal
       THEN lit_err' = "TypeError" /\ compared' = compared
       ELSE /\ lit_err' = ""
            /\ compared' = <<[eq |-> Eq(lit1[1], lit2[1]),
                              hash_eq |-> Hash(lit1[1]) = Hash(lit2[1]),
                              set_size |-> Cardinality(SetOf(<<lit1[1], lit2[1]>>))]>>
    /\ lit_bad' = <<>>
    /\ UNCHANGED <<confVars, pc, err, splitVars, sampleVars, ctor, datasetVars,
                   lit1, lit2, rendered, reparsed, run_facts, run_answer, add_args>>

NextLiteral ==
    \/ NewLiteral
    \/ Render
    \/ Reparse
    \/ Compare

LiteralSpec == InitLiteral /\ [][NextLiteral]_vars

\* ------------------------------------------------- a call of DlvSolver.run

\* The longest list of facts that the solver is called with here.
MaxFacts == 3

\* The literals that the lists of facts are made of: located-in facts that the
\* ontology chains, one that it derives from the others, and a class literal
\* in both polarities.
FactPool ==
    {Literal(ONTOLOGY_LOCATED_IN, << <<"a">>, <<"s">> >>, TRUE),
     Literal(ONTOLOGY_LOCATED_IN, << <<"s">>, <<"r">> >>, TRUE),
     Literal(ONTOLOGY_LOCATED_IN, << <<"a">>, <<"r">> >>, TRUE),
     Literal(CLASS_COUNTRY, << <<"a">> >>, TRUE),
     Literal(CLASS_COUNTRY, << <<"a">> >>, FALSE)}

FactLists == UNION {[1..n -> FactPool] : n \in 0..MaxFacts}

InitSolver == InitLiteral

\* DlvSolver.run(path, facts) is called with a list of facts (lines 68-102):
\* the facts become a set (line 74), DLV answers, and the call raises or
\* returns an AnswerSet.
SolverRun ==
    /\ \E q \in FactLists :
          /\ run_facts' = q
          /\ lit_err' = RunError(SetOf(q))
          /\ run_answer' = IF RunError(SetOf(q)) = "" THEN <<Run(SetOf(q))>> ELSE <<>>
    /\ UNCHANGED <<confVars, pc, err, splitVars, sampleVars, ctor, datasetVars,
                   lit1, lit2, rendered, reparsed, compared, add_args, lit_bad>>

NextSolver == SolverRun

SolverSpec == InitSolver /\ [][NextSolver]_vars

\* ------------------------------------------- a call of _add_literal_to_kg

\* The most class memberships that a sample is filled with here.
MaxAdded == 2

\* The fact literals that the builder can construct for the whole registry
\* (lines 289-340): the class literals and the neighbor-of literals.  Its
\* located-in literals are not among them, since Literal(...) raises for them.
BuilderLiterals ==
    {l \in ClassFacts(DOMAIN data) \cup NeighborFacts(DOMAIN data) \cup AllLocations(DOMAIN data) :
        LiteralLegal(l.predicate, l.terms)}

\* The literals that the solver can return besides: located-in literals as the
\* ontology spells them, and negative class literals.
SolverLiterals ==
    {Literal(ONTOLOGY_LOCATED_IN, <<c, data[c].region>>, TRUE) : c \in DOMAIN data}
    \cup {Literal(CLASS_COUNTRY, <<r>>, FALSE) : r \in DOMAIN regions}

InitKg ==
    /\ Init
    /\ problem_setting = PROBLEM_S1
    /\ ~cfg_class_facts

\* self._add_literal_to_kg(sample, individuals, lit, inferred, prediction)
\* (lines 161-198), for a sample that has the individuals of the whole
\* registry: a lookup raises KeyError, or the literal is in the sample.
AddLiteral ==
    /\ Idle
    /\ Cardinality(sample.memberships) < MaxAdded
    /\ \E lit \in BuilderLiterals \cup SolverLiterals, inferred \in BOOLEAN, prediction \in BOOLEAN :
        LET smp == [sample EXCEPT !.individuals = Individuals(DOMAIN data)]
        IN  /\ add_args' = <<[lit |-> lit, inferred |-> inferred, prediction |-> prediction]>>
            /\ IF AddRaises(lit, smp.individuals)
               THEN lit_err' = "KeyError" /\ sample' = smp
               ELSE lit_err' = "" /\ sample' = add_literal_to_kg(smp, lit, inferred, prediction)
    /\ UNCHANGED <<confVars, pc, err, splitVars, ctor, datasetVars,
                   spec_countries, inf_arg, minimal, countries, inf_countries, inf_neighbors,
                   class_facts, neighbor_facts, location_facts, all_locations, solver_calls,
                   answer_set, perfect_knowledge, missing_knowledge,
                   lit1, lit2, rendered, reparsed, compared, run_facts, run_answer, lit_bad>>

NextKg == AddLiteral

KgSpec == InitKg /\ [][NextKg]_vars

\* ------------------------------------------------------------------ claims

\* C1: every split that _split_countries returns is a partition of the
\* registry: train, dev and test are lists without repetition, pairwise
\* disjoint, and together hold exactly the names of the registry.
C1_SplitIsPartition ==
    pc = "split_returned" =>
        /\ Range(train) \cap Range(dev) = {}
        /\ Range(train) \cap Range(test) = {}
        /\ Range(dev) \cap Range(test) = {}
        /\ Range(train) \cup Range(dev) \cup Range(test) = DOMAIN data
        /\ Len(train) + Len(dev) + Len(test) = Cardinality(DOMAIN data)

\* C1: a split with three non-empty parts has been returned.
C1_Witness ==
    pc = "split_returned" /\ train # <<>> /\ dev # <<>> /\ test # <<>>

\* C2: in every returned split, every country of dev and of test has a
\* neighbor that is in train.
C2_EvalHasTrainNeighbor ==
    pc = "split_returned" =>
        \A c \in Range(dev) \cup Range(test) : data[c].neighbors \cap Range(train) # {}

\* C2: a split was returned in which a country of dev and a country of test
\* border each other, so that each needs a further neighbor in train.
C2_Witness ==
    /\ pc = "split_returned"
    /\ \E c \in Range(dev), d \in Range(test) : d \in data[c].neighbors

\* C3: in every returned split, dev and test each hold exactly
\* NUM_EVAL_COUNTRIES distinct countries.
C3_EvalSetsFull ==
    pc = "split_returned" =>
        /\ Len(dev) = NUM_EVAL_COUNTRIES /\ Cardinality(Range(dev)) = NUM_EVAL_COUNTRIES
        /\ Len(test) = NUM_EVAL_COUNTRIES /\ Cardinality(Range(test)) = NUM_EVAL_COUNTRIES

\* C4: _split_countries makes at most MAX_ATTEMPTS attempts and ends: while it
\* runs, a step is possible; an attempt that passes the check is returned at
\* once, as it was cut from the shuffled pool; an attempt that fails the check
\* is never returned and counts as rejected; and ValueError is raised exactly
\* when MAX_ATTEMPTS attempts were rejected, with no further attempt.
C4_BoundedAttempts ==
    /\ [](/\ a <= MAX_ATTEMPTS
          /\ pc = "splitting" => ENABLED (SplitAttempt \/ SplitExhausted)
          /\ pc = "split_returned" => a < MAX_ATTEMPTS
          /\ pc = "split_raised" => a = MAX_ATTEMPTS /\ err = "ValueError")
    /\ [][pc = "splitting" =>
            LET passes == \A c \in Range(DevOf(all_countries')) \cup Range(TestOf(all_countries')) :
                             \E n \in data[c].neighbors :
                                 n \notin Range(DevOf(all_countries')) \cup Range(TestOf(all_countries'))
            IN  \/ /\ pc' = "split_returned"
                   /\ a < MAX_ATTEMPTS /\ a' = a
                   /\ passes
                   /\ dev' = DevOf(all_countries') /\ test' = TestOf(all_countries')
                \/ /\ pc' = "splitting"
                   /\ a < MAX_ATTEMPTS /\ a' = a + 1
                   /\ ~passes
                \/ /\ pc' = "split_raised"
                   /\ a = MAX_ATTEMPTS /\ a' = a
                   /\ err' = "ValueError"]_vars

\* C4: the loop has rejected MAX_ATTEMPTS attempts and raised.
C4_Witness ==
    pc = "split_raised" /\ a = MAX_ATTEMPTS /\ CandidatePool # {}

\* A call of _generate_sample has ended, by a return or by an exception.
SampleEnded == pc \in {"sample_returned", "sample_raised"}

\* The literals that a sample holds with the given flags.
LiteralsOf(smp, inferred, prediction) ==
    {Literal(m.cls, <<m.individual>>, m.is_member) :
        m \in {m0 \in smp.memberships : m0.inferred = inferred /\ m0.prediction = prediction}}
    \cup {Literal(t.relation, <<t.subject, t.object>>, t.positive) :
        t \in {t0 \in smp.triples : t0.inferred = inferred /\ t0.prediction = prediction}}

\* The facts that the partial-view call of the solver was given.
DisclosedToSolver == IF Len(solver_calls) >= 1 THEN solver_calls[1] ELSE {}

\* The sample holds the located-in fact of c and obj as a disclosed one:
\* positive, not inferred, no prediction target.
DisclosedInSample(c, obj) ==
    \E t \in sample.triples :
        /\ t.subject = c /\ t.relation = RELATION_LOCATED_IN /\ t.object = obj
        /\ t.positive /\ ~t.inferred /\ ~t.prediction

HasRegion(c) == DisclosedInSample(c, data[c].region)

HasSubregion(c) == data[c].subregion # NoneVal /\ DisclosedInSample(c, data[c].subregion)

\* C5: when a build has ended, for every working country c the facts given to
\* the solver hold locatedIn(c, region(c)) iff c is no target (S1, S2), or c is
\* neither a target nor a neighbor of one (S3); and they hold
\* locatedIn(c, subregion(c)) iff c has a subregion and the variant is S1 or c
\* is no target.
C5_VisibilityTable ==
    SampleEnded =>
        LET targetNeighbors == UNION {data[t].neighbors : t \in inf_countries} \ inf_countries
        IN  \A c \in Range(countries) :
                /\ reg_lit(c) \in DisclosedToSolver <=>
                       IF problem_setting \in {PROBLEM_S1, PROBLEM_S2}
                       THEN c \notin inf_countries
                       ELSE c \notin inf_countries /\ c \notin targetNeighbors
                /\ sub_lit(c) \in DisclosedToSolver <=>
                       /\ data[c].subregion # NoneVal
                       /\ problem_setting = PROBLEM_S1 \/ c \notin inf_countries

\* A build has ended whose working countries all have a subregion and whose
\* targets are NUM_EVAL_COUNTRIES of them, as generate_datasets and the tests
\* make them.
RegularBuildEnded ==
    /\ SampleEnded
    /\ Cardinality(inf_countries) = NUM_EVAL_COUNTRIES
    /\ inf_countries \subseteq Range(countries)
    /\ \A c \in Range(countries) : data[c].subregion # NoneVal

\* C6: variant S1: when a regular build has ended, every working country has
\* its subregion as a disclosed fact of the sample, and exactly
\* NUM_EVAL_COUNTRIES working countries have no disclosed region fact in it.
C6_S1Sample ==
    (RegularBuildEnded /\ problem_setting = PROBLEM_S1) =>
        /\ \A c \in Range(countries) : HasSubregion(c)
        /\ Cardinality({c \in Range(countries) : ~HasRegion(c)}) = NUM_EVAL_COUNTRIES

\* C7: variant S2: when a regular build has ended, a working country has its
\* region disclosed in the sample iff it has its subregion disclosed in it,
\* and exactly NUM_EVAL_COUNTRIES working countries have neither.
C7_S2Sample ==
    (RegularBuildEnded /\ problem_setting = PROBLEM_S2) =>
        /\ \A c \in Range(countries) : HasRegion(c) <=> HasSubregion(c)
        /\ Cardinality({c \in Range(countries) : ~HasRegion(c) /\ ~HasSubregion(c)})
              = NUM_EVAL_COUNTRIES

\* The sample holds the fact that c and d are neighbors as a disclosed one.
DisclosedNeighbors(c, d) ==
    \E t \in sample.triples :
        /\ t.subject = c /\ t.object = d
        /\ t.relation \in {RELATION_NEIGHBOR_OF, NEIGHBOR_OF_PREDICATE}
        /\ t.positive /\ ~t.inferred /\ ~t.prediction

\* C8: variant S3: when a regular build has ended, exactly NUM_EVAL_COUNTRIES
\* targets have neither region nor subregion disclosed in the sample; every
\* working country that a disclosed neighbor-of fact links to a target, and
\* that is no target, has its subregion but not its region disclosed; every
\* other working country has both.
C8_S3Sample ==
    (RegularBuildEnded /\ problem_setting = PROBLEM_S3) =>
        LET linked == {c \in Range(countries) \ inf_countries :
                          \E t \in inf_countries : DisclosedNeighbors(t, c) \/ DisclosedNeighbors(c, t)}
        IN  /\ Cardinality({t \in inf_countries : ~HasRegion(t) /\ ~HasSubregion(t)})
                  = NUM_EVAL_COUNTRIES
            /\ \A c \in linked : HasSubregion(c) /\ ~HasRegion(c)
            /\ \A c \in Range(countries) \ (inf_countries \cup linked) :
                  HasRegion(c) /\ HasSubregion(c)

\* C9: when the build of a sample with a working country has ended, the
\* prediction targets of the sample are exactly the literals of the perfect
\* knowledge, the answer set for the fully disclosed facts of the working
\* countries, that are neither facts nor inferences of the answer set for the
\* disclosed facts (those that the minimal filter retains, if it is on), each
\* with prediction = true and inferred = false.
C9_PredictionsAreMissing ==
    (SampleEnded /\ countries # <<>>) =>
        LET cs == Range(countries)
            disclosed == InputFacts(cs, inf_countries, inf_neighbors)
            view == disclosed \cup Consequences(disclosed)
            perfect == PerfectFacts(cs) \cup Consequences(PerfectFacts(cs))
            missing == perfect \ view
        IN  /\ LiteralsOf(sample, FALSE, TRUE)
                  = {m \in missing : Retained(m, minimal, inf_countries)}
            /\ LiteralsOf(sample, TRUE, TRUE) = {}

\* C10: a build with an empty set of targets hides nothing and
\* yields no missing knowledge: the answer set of the disclosed facts is the
\* perfect knowledge, and the sample has no prediction target.
C10_NoTargetsNothingMissing ==
    (SampleEnded /\ inf_arg = <<>>) =>
        /\ inf_countries = {}
        /\ missing_knowledge = {}
        /\ Iter(answer_set) = perfect_knowledge
        /\ LiteralsOf(sample, FALSE, TRUE) \cup LiteralsOf(sample, TRUE, TRUE) = {}

\* C11: when the build of a sample with a working country has ended, the
\* sample holds every disclosed fact of the answer set as a literal that is
\* neither inferred nor a prediction target, whatever minimal is; it holds an
\* inference as an inferred literal, and a missing literal as a prediction
\* target, iff minimal is off, or the predicate is region or subregion, or one
\* of the terms is a target.
C11_MinimalFilter ==
    (SampleEnded /\ countries # <<>>) =>
        LET cs == Range(countries)
            disclosed == InputFacts(cs, inf_countries, inf_neighbors)
            inferences == Consequences(disclosed) \ disclosed
            perfect == PerfectFacts(cs) \cup Consequences(PerfectFacts(cs))
            missing == perfect \ (disclosed \cup inferences)
            kept(l) == \/ ~minimal
                       \/ l.predicate \in {CLASS_REGION, CLASS_SUBREGION}
                       \/ \E k \in 1..Len(l.terms) : l.terms[k] \in inf_countries
        IN  /\ LiteralsOf(sample, FALSE, FALSE) = disclosed
            /\ LiteralsOf(sample, TRUE, FALSE) = {i \in inferences : kept(i)}
            /\ LiteralsOf(sample, FALSE, TRUE) = {m \in missing : kept(m)}

\* The place of an event of generate_datasets in an iteration that makes nt
\* training samples: the directories, the split, each training sample built
\* and then written, the dev sample built and written, the test sample built
\* and written.
Stage(e, nt) ==
    IF e.op = "mkdir" THEN 0
    ELSE IF e.op = "split" THEN 1
    ELSE (IF e.kind = "training" THEN 2 + 2 * e.idx
          ELSE IF e.kind = "dev" THEN 2 + 2 * nt
          ELSE 4 + 2 * nt)
         + (IF e.op = "write" THEN 1 ELSE 0)

\* C12: on a registry that holds a country, generate_datasets does, for each
\* of the num_datasets iterations in turn, exactly this, in this order: one split; num_training_samples times a
\* build on train without targets and with minimal off, each sample written
\* before the next is built; one build with the targets dev and minimal on,
\* written; one build with the targets test and minimal on, written.  Each
\* build calls the solver exactly twice, and the call ends by returning after
\* the last test sample was written, unless its arguments were illegal or a
\* split could not be found.
C12_DatasetsInOrder ==
    LET n == 6 + 2 * num_training_samples
        SplitOf(e) == CHOOSE f \in Range(log) : f.op = "split" /\ f.ds = e.ds
    IN  DOMAIN data # {} =>
        /\ \A i \in 1..Len(log) :
              /\ log[i].ds * n + Stage(log[i], num_training_samples) + 1 = i
              /\ log[i].op = "build" =>
                    /\ log[i].calls = 2
                    /\ log[i].spec = SplitOf(log[i]).train
                    /\ log[i].kind = "training" => log[i].inf = <<>> /\ ~log[i].minimal
                    /\ log[i].kind = "dev" => log[i].inf = SplitOf(log[i]).dev /\ log[i].minimal
                    /\ log[i].kind = "test" => log[i].inf = SplitOf(log[i]).test /\ log[i].minimal
        /\ gd_pc = "returned" => Len(log) = num_datasets * n
        /\ gd_pc = "raised" =>
              \/ CountsIllegal(num_datasets, num_training_samples)
              \/ log[Len(log)].op = "mkdir"

\* C13: a literal with at least one term, rendered by str and parsed again
\* with the pattern of the solver's output (sign, predicate, terms split at
\* the commas), gives no error and a literal that is equal to the original,
\* with the same predicate, the same terms in the same order and the same
\* polarity.
C13_RoundTrip ==
    (rendered # NoneVal /\ Len(lit1[1].terms) >= 1) =>
        /\ lit_err \notin {"AttributeError", "ValueError"}
        /\ reparsed # <<>> =>
              /\ Eq(reparsed[1], lit1[1])
              /\ reparsed[1].predicate = lit1[1].predicate
              /\ reparsed[1].terms = lit1[1].terms
              /\ reparsed[1].positive = lit1[1].positive

\* C13: a negative literal of two terms was rendered and parsed again.
C13_Witness ==
    /\ reparsed # <<>>
    /\ ~lit1[1].positive
    /\ Len(lit1[1].terms) = 2
    /\ lit1[1].terms[1] # lit1[1].terms[2]

\* C14: two literals that have terms are equal, and have equal hashes, iff
\* they have the same polarity, the same predicate and the same terms in the
\* same positions; a set of the two holds one literal iff they are equal.
C14_ValueEquality ==
    compared # <<>> =>
        LET same == /\ lit1[1].positive = lit2[1].positive
                    /\ lit1[1].predicate = lit2[1].predicate
                    /\ lit1[1].terms = lit2[1].terms
        IN  /\ compared[1].eq <=> same
            /\ compared[1].hash_eq <=> same
            /\ compared[1].set_size = IF same THEN 1 ELSE 2

\* C14: two literals that differ in the order of their terms alone were
\* compared, and so were two that differ in polarity alone.
C14_Witness ==
    /\ compared # <<>>
    /\ lit1[1].predicate = lit2[1].predicate
    /\ \/ /\ lit1[1].positive = lit2[1].positive
          /\ Len(lit1[1].terms) = 2 /\ Len(lit2[1].terms) = 2
          /\ lit1[1].terms[1] = lit2[1].terms[2] /\ lit1[1].terms[2] = lit2[1].terms[1]
          /\ lit1[1].terms[1] # lit1[1].terms[2]
       \/ /\ lit1[1].positive # lit2[1].positive
          /\ lit1[1].terms = lit2[1].terms
    /\ ~compared[1].eq
\* C15: every AnswerSet that DlvSolver.run returns has the input facts, each
\* once, as its facts, no fact among its inferences, and iterates over the
\* facts and the inferences and nothing else.
C15_AnswerSet ==
    run_answer # <<>> =>
        LET answer == run_answer[1]
        IN  /\ answer.facts = Range(run_facts)
            /\ \A l \in answer.facts : \A m \in answer.facts : Eq(l, m) => l = m
            /\ answer.facts \cap answer.inferences = {}
            /\ \A l \in answer.facts : \A m \in answer.inferences : ~Eq(l, m)
            /\ Iter(answer) = answer.facts \cup answer.inferences
            /\ Cardinality(Iter(answer)) =
                  Cardinality(answer.facts) + Cardinality(answer.inferences)

\* A call with a fact given twice returned, and the solver derived something.
C15_Witness ==
    /\ run_answer # <<>>
    /\ Len(run_facts) > Cardinality(run_answer[1].facts)
    /\ run_answer[1].inferences # {}

\* C16: a country whose raw subregion is the empty string is loaded with the
\* subregion None, and when a build with such a working country has ended, no
\* located-in literal from the country to a subregion is among the disclosed
\* or the full location facts, while the literal of its region is among the
\* full location facts and its class literal is among the class facts.
C16_NoSubregionNoLiteral ==
    \A c \in DOMAIN data :
        RawSubregionOf[Index(c)] = <<>> =>
            /\ data[c].subregion = NoneVal
            /\ (SampleEnded /\ c \in Range(countries)) =>
                  /\ \A l \in location_facts \cup all_locations :
                        ~(/\ l.predicate = RELATION_LOCATED_IN
                          /\ l.terms[1] = c
                          /\ l.terms[2] \in Range(SubregionOf) \cup {<<>>})
                  /\ reg_lit(c) \in all_locations
                  /\ Literal(CLASS_COUNTRY, <<c>>, TRUE) \in class_facts

\* The registry of the three countries a, b, c in a line: a and b are
\* neighbors, and so are b and c.
LineRegistry ==
    /\ DOMAIN data = {<<"a">>, <<"b">>, <<"c">>}
    /\ data[<<"a">>].neighbors = {<<"b">>}
    /\ data[<<"b">>].neighbors = {<<"a">>, <<"c">>}
    /\ data[<<"c">>].neighbors = {<<"b">>}

\* C17, as the claim has it: for the line registry and one evaluation country
\* per set, every split that _split_countries returns has b in dev or in test,
\* with a neighbor of b in train.
C17_MiddleIsEvaluated ==
    (LineRegistry /\ NUM_EVAL_COUNTRIES = 1 /\ pc = "split_returned") =>
        /\ <<"b">> \in Range(dev) \cup Range(test)
        /\ data[<<"b">>].neighbors \cap Range(train) # {}

\* C17, amended: for the line registry and one evaluation country per set,
\* every split that _split_countries returns has b as its only train country
\* and the two ends a and c as dev and test, in either order, each with its
\* neighbor b in train.
C17_MiddleIsTrain ==
    (LineRegistry /\ NUM_EVAL_COUNTRIES = 1 /\ pc = "split_returned") =>
        /\ train = << <<"b">> >>
        /\ Len(dev) = 1 /\ Len(test) = 1
        /\ Range(dev) \cup Range(test) = {<<"a">>, <<"c">>}
        /\ \A c \in Range(dev) \cup Range(test) : data[c].neighbors \cap Range(train) # {}

\* The split of the line registry succeeded after an attempt was rejected.
C17_Witness ==
    LineRegistry /\ NUM_EVAL_COUNTRIES = 1 /\ pc = "split_returned" /\ a >= 1 /\ dev = << <<"c">> >>

\* C18: a constructor call with an unknown variant or with an ontology path
\* that is no file raises, and leaves no registry, no variant and no regions
\* behind; a call of generate_datasets with num_datasets < 1 or
\* num_training_samples < 1 raises ValueError with no directory made, no split
\* attempted and no solver call made.
C18_FailFast ==
    /\ (ctor.problem_setting \notin {PROBLEM_S1, PROBLEM_S2, PROBLEM_S3} \/ ~ctor.ontology_is_file) =>
          /\ pc \in {"new", "ctor_raised"}
          /\ data = <<>> /\ regions = <<>> /\ problem_setting = ""
          /\ pc = "ctor_raised" => err = "ValueError"
    /\ pc = "ctor_raised" =>
          (ctor.problem_setting \notin {PROBLEM_S1, PROBLEM_S2, PROBLEM_S3} \/ ~ctor.ontology_is_file)
    /\ (pc = "datasets" /\ (num_datasets < 1 \/ num_training_samples < 1)) =>
          /\ gd_pc = "raised"
          /\ err = "ValueError"
          /\ log = <<>>
          /\ a = 0 /\ all_countries = <<>>
          /\ solver_calls = <<>>

\* A constructor call has raised for a registry with a country.
C18_CtorWitness == pc = "ctor_raised" /\ DOMAIN ctor.data # {} /\ ctor.ontology_is_file

\* generate_datasets has raised for num_training_samples = 0 on a generator
\* whose registry has countries with neighbors.
C18_Witness ==
    /\ gd_pc = "raised"
    /\ num_datasets >= 1
    /\ num_training_samples = 0
    /\ CandidatePool # {}

\* C19: when a build with a working country has ended, no Literal(...) of the
\* builder has raised ValueError: every predicate it constructs literals with
\* matches PREDICATE_PATTERN, and for every working country the class literal
\* is among the class facts and the literals of its region and, if it has
\* one, of its subregion are among the full location facts.
C19_LiteralsConstructed ==
    (SampleEnded /\ countries # <<>>) =>
        /\ err # "ValueError"
        /\ \A t \in Constructed(Range(countries)) : PREDICATE_PATTERN(t[1])
        /\ \A c \in Range(countries) :
              /\ Literal(CLASS_COUNTRY, <<c>>, TRUE) \in class_facts
              /\ reg_lit(c) \in all_locations
              /\ data[c].subregion # NoneVal => sub_lit(c) \in all_locations

\* C20: after a call of _add_literal_to_kg, a literal of one term is a class
\* membership of the individual of its term and a literal of two terms is a
\* triple of the sample, with the polarity of the literal and the flags of
\* the call; and for a fact literal that the builder constructs, the lookups
\* of the predicate and of the terms have succeeded.
C20_LiteralEncoded ==
    add_args # <<>> =>
        LET lit == add_args[1].lit
            inferred == add_args[1].inferred
            prediction == add_args[1].prediction
        IN  /\ lit \in BuilderLiterals => lit_err = ""
            /\ (lit_err = "" /\ Len(lit.terms) = 1) =>
                  [individual |-> lit.terms[1], cls |-> lit.predicate, is_member |-> lit.positive,
                   inferred |-> inferred, prediction |-> prediction] \in sample.memberships
            /\ (lit_err = "" /\ Len(lit.terms) = 2) =>
                  [subject |-> lit.terms[1], relation |-> lit.predicate, object |-> lit.terms[2],
                   positive |-> lit.positive, inferred |-> inferred, prediction |-> prediction]
                      \in sample.triples

C21_GivenWitness ==
    SampleEnded /\ inf_arg # <<>> /\ spec_countries # <<>> /\ inf_countries = Range(inf_arg)

\* C22: when a build with a working country has ended, the neighbor facts
\* hold neighborOf(x, y) exactly for the working countries x and y of which
\* one is a registered neighbor of the other, so they are symmetric; the build
\* has not raised over a neighbor outside the working list; and all neighbor
\* facts are among the facts of the first call of the solver.
C22_NeighborFacts ==
    (SampleEnded /\ countries # <<>>) =>
        LET cs == Range(countries)
        IN  /\ err = ""
            /\ \A x \in cs : \A y \in cs :
                  Literal(NEIGHBOR_OF_PREDICATE, <<x, y>>, TRUE) \in neighbor_facts
                      <=> (y \in data[x].neighbors \/ x \in data[y].neighbors)
            /\ \A l \in neighbor_facts :
                  /\ l.terms[1] \in cs /\ l.terms[2] \in cs
                  /\ Literal(NEIGHBOR_OF_PREDICATE, <<l.terms[2], l.terms[1]>>, TRUE) \in neighbor_facts
            /\ Len(solver_calls) >= 1
            /\ neighbor_facts \subseteq DisclosedToSolver

\* C23: when a build with a working country has ended, region(r) for every
\* region, subregion(s) for every subregion and locatedIn(s, r) for every
\* subregion s of a region r are among the facts of the first call of the
\* solver and among the full facts, the class facts and all locations.
C23_RegionsNeverHidden ==
    (SampleEnded /\ countries # <<>>) =>
        /\ Len(solver_calls) >= 1
        /\ \A r \in DOMAIN regions :
              /\ Literal(CLASS_REGION, <<r>>, TRUE) \in DisclosedToSolver \cap class_facts
              /\ \A sub \in Range(regions[r]) :
                    /\ Literal(CLASS_SUBREGION, <<sub>>, TRUE) \in DisclosedToSolver \cap class_facts
                    /\ Literal(RELATION_LOCATED_IN, <<sub, r>>, TRUE)
                          \in DisclosedToSolver \cap all_locations

\* C24: when a build with a working country has ended, the solver has been
\* called twice: first with the neighbor facts and the disclosed location
\* facts, and with the class facts iff the option class_facts is set; then
\* with the class facts, the neighbor facts and all locations; and the facts
\* of the first call are among those of the second.
C24_SolverInputs ==
    (SampleEnded /\ countries # <<>>) =>
        /\ Len(solver_calls) = 2
        /\ solver_calls[1] = neighbor_facts \cup location_facts
                                \cup (IF cfg_class_facts THEN class_facts ELSE {})
        /\ solver_calls[2] = class_facts \cup neighbor_facts \cup all_locations
        /\ solver_calls[1] \subseteq solver_calls[2]

\* C25: in every split that _split_countries returns, every country without
\* neighbors is in train and in neither dev nor test; train holds the
\* countries with neighbors that are in neither dev nor test, and the
\* countries without neighbors, and nothing else; and train, dev and test are
\* each in strictly ascending order, so without repetition.
C25_TrainAndOrder ==
    pc = "split_returned" =>
        LET lone == {n \in DOMAIN data : data[n].neighbors = {}}
            pool == {n \in DOMAIN data : data[n].neighbors # {}}
            Ascending(q) == \A i \in 1..Len(q) : \A j \in 1..Len(q) : i < j => StrLess(q[i], q[j])
        IN  /\ lone \subseteq Range(train)
            /\ lone \cap (Range(dev) \cup Range(test)) = {}
            /\ Range(train) = (pool \ (Range(dev) \cup Range(test))) \cup lone
            /\ Ascending(train) /\ Ascending(dev) /\ Ascending(test)

\* A split has been returned whose train holds a country with neighbors and
\* one without, the latter before the former.
C25_Witness ==
    /\ pc = "split_returned"
    /\ dev # <<>> /\ test # <<>>
    /\ \E i \in 1..Len(train) : \E j \in 1..Len(train) :
          i < j /\ data[train[i]].neighbors = {} /\ data[train[j]].neighbors # {}

\* The entries of a log that stand for a sample written to disk.
Written(l) == {l[i] : i \in {j \in 1..Len(l) : l[j].op = "write"}}

\* C26: in generate_datasets, when _split_countries has raised or a build has
\* ended with an exception (of the solver's run or of any other step), the
\* next step of the call is that it raises: the failed step is not taken
\* again; the step that fails writes no sample and leaves the written ones as
\* they are; and once the call has raised it does nothing but end, with no
\* further split attempt, solver call, build, write or iteration.
C26_FailureEndsRun ==
    [][/\ (gd_pc = "split" /\ pc = "split_raised") =>
              /\ gd_pc' = "raised"
              /\ log' = log
              /\ a' = a /\ solver_calls' = solver_calls
       /\ (gd_pc \in {"training", "dev", "test"} /\ err' # "") =>
              /\ gd_pc' = "raised"
              /\ Written(log') = Written(log)
              /\ dataset_idx' = dataset_idx /\ sample_idx' = sample_idx
       /\ gd_pc = "raised" =>
              /\ gd_pc' = "idle" /\ pc' = "idle"
              /\ a' = 0 /\ solver_calls' = <<>>]_vars

\* generate_datasets has raised because the split of its first dataset ran
\* out of attempts: the directories were made, nothing else was done.
C26_Witness ==
    /\ gd_pc = "raised"
    /\ a = MAX_ATTEMPTS
    /\ Len(log) = 1 /\ log[1].op = "mkdir"
    /\ solver_calls = <<>>

\* generate_datasets has raised because a call of the solver raised.
C26_SolverWitness ==
    gd_pc = "raised" /\ err = "AttributeError" /\ Len(solver_calls) = 1

\* C27, for every step and the state it leads to: a Literal that exists has
\* a predicate and terms that are not empty and match ^[a-z][a-zA-Z0-9]*$; a call of Literal(...) that has raised names
\* a predicate or a term that is empty or does not match, with ValueError; a
\* call that raises produces no Literal; and the predicate, the terms and the
\* polarity of a Literal are changed by no operation on it: a variable has
\* another value only when a new Literal has been constructed for it.
C27_LegalOrValueError ==
  [][
    LET Matching(x) ==
            /\ Len(x) >= 1
            /\ x[1] \in Lower
            /\ \A i \in 2..Len(x) : x[i] \in Lower \cup Upper \cup Digit
        Legal(l) ==
            /\ Matching(l.predicate)
            /\ IF l.terms = NoneVal THEN TRUE
               ELSE \A i \in 1..Len(l.terms) : Matching(l.terms[i])
            /\ l.positive \in BOOLEAN
        Kept ==
            /\ lit1 # <<>> => Legal(lit1[1])
            /\ lit2 # <<>> => Legal(lit2[1])
            /\ lit_bad # <<>> => ~Matching(lit_bad[1].value)
            /\ lit_bad # <<>> <=> lit_err = "ValueError"
        Same(v, w) ==
            /\ Len(v) = Len(w)
            /\ Len(v) = 1 =>
                  /\ v[1].predicate = w[1].predicate
                  /\ v[1].positive = w[1].positive
                  /\ (v[1].terms = NoneVal) = (w[1].terms = NoneVal)
                  /\ IF v[1].terms = NoneVal THEN TRUE ELSE v[1].terms = w[1].terms
        Step ==
            /\ lit_bad' # <<>> => (Same(lit1', lit1) /\ Same(lit2', lit2))
            /\ (~Same(lit1', lit1) \/ ~Same(lit2', lit2)) =>
                  /\ lit_err' = "" /\ lit_bad' = <<>>
                  /\ Same(lit1', lit1) \/ Same(lit2', lit2)
                  /\ rendered' = NoneVal /\ reparsed' = <<>> /\ compared' = <<>>
    IN  Kept' /\ Step
  ]_vars

\* A Literal exists, and the call of Literal(...) after it has raised over a
\* term that is not empty.
C27_Witness ==
    /\ lit1 # <<>>
    /\ lit_bad # <<>>
    /\ lit_bad[1].arg = "terms"
    /\ lit_bad[1].value # <<>>

\* C28: when a build has ended, the literals that the sample holds as
\* specified (neither inferred nor prediction), those it holds as inferred
\* and those it holds as prediction targets are pairwise disjoint, and it
\* holds none as both inferred and prediction.
C28_OneStatus ==
    SampleEnded =>
        LET specified == LiteralsOf(sample, FALSE, FALSE)
            inferred == LiteralsOf(sample, TRUE, FALSE)
            predicted == LiteralsOf(sample, FALSE, TRUE)
        IN  /\ specified \cap inferred = {}
            /\ specified \cap predicted = {}
            /\ inferred \cap predicted = {}
            /\ LiteralsOf(sample, TRUE, TRUE) = {}

\* A minimal build has returned a sample that holds literals, all of them
\* given to both calls of the solver and returned by both.
C28_Witness ==
    /\ pc = "sample_returned"
    /\ minimal
    /\ LiteralsOf(sample, FALSE, FALSE) # {}
    /\ Len(solver_calls) = 2
    /\ perfect_knowledge \cap answer_set.facts # {}

\* C29: when generate_datasets has ended on a registry that holds a country,
\* every dataset whose split was drawn has its samples, and no held-out
\* country leaks: the working countries of every training sample hold no
\* country of dev or test; there is a dev sample whose working countries are
\* those of train and dev, no test country among them; and there is a test
\* sample whose working countries are those of train and test, no dev country
\* among them.
C29_NoLeak ==
    (gd_pc \in {"returned", "raised"} /\ DOMAIN data # {}) =>
        \A i \in 1..Len(log) :
            log[i].op = "split" =>
                LET builds == {log[j] : j \in {k \in 1..Len(log) :
                                                  log[k].op = "build" /\ log[k].ds = log[i].ds}}
                    Working(b) == Range(b.spec) \cup Range(b.inf)
                    tr == Range(log[i].train)
                    dv == Range(log[i].dev)
                    ts == Range(log[i].test)
                IN  /\ \A b \in builds : b.kind = "training" => Working(b) \cap (dv \cup ts) = {}
                    /\ \E b \in builds :
                          b.kind = "dev" /\ Working(b) = tr \cup dv /\ Working(b) \cap ts = {}
                    /\ \E b \in builds :
                          b.kind = "test" /\ Working(b) = tr \cup ts /\ Working(b) \cap dv = {}

\* C30: on a registry that holds a country, generate_datasets never ends in a
\* build that has raised, so that every
\* dataset whose split was drawn gets its dev and its test sample; and when
\* the dev or the test sample has been built and written, every target of it
\* has a neighborOf fact, given to the solver in the first call, that links it
\* to a working country that is no target.
C30_TargetsLinked ==
    /\ (gd_pc = "raised" /\ log # <<>> /\ DOMAIN data # {}) => log[Len(log)].op # "build"
    /\ (log # <<>> /\ log[Len(log)].op = "write" /\ log[Len(log)].kind \in {"dev", "test"}) =>
          \A t \in inf_countries :
              \E n \in Range(countries) \ inf_countries :
                  Literal(NEIGHBOR_OF_PREDICATE, <<t, n>>, TRUE) \in neighbor_facts \cap DisclosedToSolver

====
